---- MODULE Spec2Model ----
(***************************************************************************)
(* ZoteroSync: writing ASReview decisions back to a Zotero library as      *)
(* review:* tags (espace/zotsync/from_asreview.py).                        *)
(*                                                                         *)
(* One behaviour is one call of apply_asreview_decisions: Call fixes the   *)
(* arguments, each row of the CSV is one step of the row loop (on the      *)
(* SQLite branch or on the remote branch), Return hands back the report.   *)
(* Strings are sequences of one-character strings, so that prefix tests,   *)
(* case folding and whitespace normalisation are computed as the code      *)
(* computes them.                                                          *)
(***************************************************************************)
EXTENDS Integers, Sequences, FiniteSets, TLC

VARIABLES
    pc,          \* "idle" before the call, "loop" in the row loop, "done" after return
    use_sqlite,  \* db_path is not None
    dry_run,     \* the dry_run argument
    idx,         \* number of rows of the CSV already iterated
    report,      \* UpdateReport: updated, not_found, errors
    remoteTags,  \* remote library: item key -> set of tag strings (data.tags)
    tagsTable,   \* SQLite table tags: set of [tagID, name]
    itemTags,    \* SQLite table itemTags: set of <<itemID, tagID>>
    puts,        \* keys named by the PUT requests sent so far
    ev,          \* history: what the latest iteration of the row loop saw and did
    df,          \* the rows of the CSV, when the call is given a fixed file (SpecTwice)
    run,         \* which call on that file is running: 1 or 2
    snapshot,    \* the tag set of every record when the first call returned
    clean,       \* no GET or PUT of the calls on that file has been answered with a failure
    arg,         \* the arguments of a helper that is applied on its own
    ret,         \* what the helper returned for arg
    txn          \* the open SQLite transaction of the row in progress, statement by statement

core == <<pc, use_sqlite, dry_run, idx, report, remoteTags, tagsTable, itemTags, puts, ev>>
file == <<df, run, snapshot, clean>>
unit == <<arg, ret, txn>>
vars == <<core, file, unit>>

(***************************************************************************)
(* Bounds                                                                  *)
(***************************************************************************)
\* rows in the CSV of one call
MaxRows == 2
\* rows in the CSV that is applied twice
MaxFile == 2

(***************************************************************************)
(* Strings                                                                 *)
(***************************************************************************)
UpperChars == <<"A","B","C","D","E","F","G","H","I","J","K","L","M",
                "N","O","P","Q","R","S","T","U","V","W","X","Y","Z">>
LowerChars == <<"a","b","c","d","e","f","g","h","i","j","k","l","m",
                "n","o","p","q","r","s","t","u","v","w","x","y","z">>
Digits == {"0","1","2","3","4","5","6","7","8","9"}

\* str.lower() on one character
LowerChar(c) ==
    IF \E i \in 1..26 : UpperChars[i] = c
    THEN LowerChars[CHOOSE i \in 1..26 : UpperChars[i] = c]
    ELSE c

\* str.lower()
Lower(s) == [i \in 1..Len(s) |-> LowerChar(s[i])]

\* the characters the regex class \s and str.strip() treat as whitespace
IsSpace(c) == c \in {" ", "\t", "\n", "\r"}

\* str.startswith(p)
StartsWith(s, p) == Len(s) >= Len(p) /\ SubSeq(s, 1, Len(p)) = p

\* p in s (substring)
Contains(s, p) ==
    \E i \in 0..(Len(s) - Len(p)) : SubSeq(s, i + 1, i + Len(p)) = p

RECURSIVE LStrip(_)
LStrip(s) == IF s # <<>> /\ IsSpace(s[1]) THEN LStrip(Tail(s)) ELSE s

RECURSIVE RStrip(_)
RStrip(s) ==
    IF s # <<>> /\ IsSpace(s[Len(s)]) THEN RStrip(SubSeq(s, 1, Len(s) - 1)) ELSE s

\* str.strip()
Strip(s) == RStrip(LStrip(s))

\* re.sub(r"\s+", " ", s): every run of whitespace becomes one space
RECURSIVE CollapseSpaces(_)
CollapseSpaces(s) ==
    IF s = <<>> THEN <<>>
    ELSE IF IsSpace(s[1])
         THEN <<" ">> \o CollapseSpaces(LStrip(s))
         ELSE <<s[1]>> \o CollapseSpaces(Tail(s))

\* a CSV cell pandas read as missing (float NaN)
NaN == <<"\\NaN">>

\* str(v) of a cell: NaN prints as "nan"
Str(v) == IF v = NaN THEN <<"n","a","n">> ELSE v

\* _norm
Norm(s) == Strip(CollapseSpaces(Str(s)))

(***************************************************************************)
(* Helpers of from_asreview.py                                             *)
(***************************************************************************)
DoiPrefixes == << <<"h","t","t","p","s",":","/","/","d","o","i",".","o","r","g","/">>,
                  <<"h","t","t","p",":","/","/","d","o","i",".","o","r","g","/">>,
                  <<"d","o","i",":">>,
                  <<"d","o","i",".","o","r","g","/">> >>

\* the for loop of _normalize_doi from prefix number k on: each prefix is tried once, in order
RECURSIVE StripDoiPrefixes(_, _)
StripDoiPrefixes(raw, k) ==
    IF k > Len(DoiPrefixes) THEN raw
    ELSE IF StartsWith(raw, DoiPrefixes[k])
         THEN StripDoiPrefixes(SubSeq(raw, Len(DoiPrefixes[k]) + 1, Len(raw)), k + 1)
         ELSE StripDoiPrefixes(raw, k + 1)

\* _normalize_doi
NormalizeDoi(s) ==
    LET raw == Lower(Norm(s))
    IN  IF raw = <<>> THEN <<>> ELSE Strip(StripDoiPrefixes(raw, 1))

\* re.search(r"(19|20)\d{2}", s) matches at position i
YearAt(s, i) ==
    /\ i + 3 <= Len(s)
    /\ SubSeq(s, i, i + 1) \in { <<"1","9">>, <<"2","0">> }
    /\ s[i + 2] \in Digits
    /\ s[i + 3] \in Digits

\* _guess_year: the first four-digit year in the text, or ""
GuessYear(s0) ==
    LET s == Norm(s0)
    IN  IF \E i \in 1..Len(s) : YearAt(s, i)
        THEN LET i == CHOOSE k \in 1..Len(s) :
                          YearAt(s, k) /\ \A m \in 1..(k - 1) : ~YearAt(s, m)
             IN  SubSeq(s, i, i + 3)
        ELSE <<>>

\* pd.to_datetime(val, utc=True, errors="raise") succeeds: the model knows the
\* UTC ISO-8601 shape YYYY-MM-DDTHH:MM:SSZ; any other text is a parse failure
ParsesAsTime(s) ==
    /\ Len(s) = 20
    /\ \A i \in {1,2,3,4,6,7,9,10,12,13,15,16,18,19} : s[i] \in Digits
    /\ s[5] = "-" /\ s[8] = "-" /\ s[11] = "T"
    /\ s[14] = ":" /\ s[17] = ":" /\ s[20] = "Z"

\* _format_review_time
FormatReviewTime(val) ==
    IF val = NaN THEN <<>>
    ELSE IF Strip(Str(val)) = <<>> THEN <<>>
    ELSE IF ParsesAsTime(val)
         THEN SubSeq(val, 1, 10) \o <<" ">> \o SubSeq(val, 12, 16)
         ELSE Str(val)

INCLUDED == <<"i","n","c","l","u","d","e","d">>
EXCLUDED == <<"e","x","c","l","u","d","e","d">>
\* label_to_decision returned None
NoDecision == <<"\\None">>

IncludedLabels == { <<"1">>, INCLUDED, <<"r","e","l","e","v","a","n","t">>,
                    <<"y","e","s">>, <<"t","r","u","e">>, <<"y">> }
ExcludedLabels == { <<"0">>, <<"-","1">>, EXCLUDED,
                    <<"i","r","r","e","l","e","v","a","n","t">>,
                    <<"n","o">>, <<"f","a","l","s","e">>, <<"n">> }

\* a bug: the label is compared as written, without case folding
LabelToDecisionAsWritten(v) ==
    LET s == Norm(v)
    IN  IF s = <<>> THEN NoDecision
        ELSE IF s \in IncludedLabels THEN INCLUDED
        ELSE IF s \in ExcludedLabels THEN EXCLUDED
        ELSE NoDecision

\* label_to_decision
LabelToDecision(v) ==
    LET s == Lower(Norm(v))
    IN  IF s = <<>> THEN NoDecision
        ELSE IF s \in IncludedLabels THEN INCLUDED
        ELSE IF s \in ExcludedLabels THEN EXCLUDED
        ELSE NoDecision

REVIEW_DECISION_PREFIX == <<"r","e","v","i","e","w",":","D","e","c","i","s","i","o","n","=">>
REVIEW_TIME_PREFIX == <<"r","e","v","i","e","w",":","T","i","m","e","=">>
REVIEW_REASON_PREFIX == <<"r","e","v","i","e","w",":","R","e","a","s","o","n","=">>
TAG_PREFIX_REVIEW == <<"r","e","v","i","e","w",":">>

\* reason_value of a row
ReasonValue(raw_reason) == IF raw_reason = NaN THEN <<>> ELSE Norm(raw_reason)

\* a bug: Time and Reason are appended whatever the decision is
TagsToSetWithoutDecision(r) ==
    LET decision_value == LabelToDecision(r.asreview_label)
        time_value == FormatReviewTime(r.asreview_time)
        reason_value == ReasonValue(r.asreview_note)
    IN  (IF decision_value # NoDecision THEN <<REVIEW_DECISION_PREFIX \o decision_value>> ELSE <<>>)
        \o (IF time_value # <<>> THEN <<REVIEW_TIME_PREFIX \o time_value>> ELSE <<>>)
        \o (IF reason_value # <<>> THEN <<REVIEW_REASON_PREFIX \o reason_value>> ELSE <<>>)

\* tags_to_set of a row, in the order the code appends them
TagsToSet(r) ==
    LET decision_value == LabelToDecision(r.asreview_label)
        time_value == FormatReviewTime(r.asreview_time)
        reason_value == ReasonValue(r.asreview_note)
    IN  IF decision_value = NoDecision THEN <<>>
        ELSE <<REVIEW_DECISION_PREFIX \o decision_value>>
             \o (IF time_value # <<>> THEN <<REVIEW_TIME_PREFIX \o time_value>> ELSE <<>>)
             \o (IF reason_value # <<>> THEN <<REVIEW_REASON_PREFIX \o reason_value>> ELSE <<>>)

(***************************************************************************)
(* difflib.SequenceMatcher(None, a, b).ratio()                             *)
(***************************************************************************)
\* length of the longest common block starting at a[i] and b[j]
RECURSIVE BlockLen(_, _, _, _)
BlockLen(a, b, i, j) ==
    IF i > Len(a) \/ j > Len(b) \/ a[i] # b[j] THEN 0
    ELSE 1 + BlockLen(a, b, i + 1, j + 1)

\* find_longest_match: the longest block, the earliest in a, then the earliest in b
LongestMatch(a, b) ==
    LET cells == (1..Len(a)) \X (1..Len(b))
        len == [c \in cells |-> BlockLen(a, b, c[1], c[2])]
        k == CHOOSE m \in { len[c] : c \in cells } : \A c \in cells : len[c] <= m
        longest == { c \in cells : len[c] = k }
        i == CHOOSE m \in { c[1] : c \in longest } : \A c \in longest : m <= c[1]
        j == CHOOSE m \in { c[2] : c \in { d \in longest : d[1] = i } } :
                 \A c \in { d \in longest : d[1] = i } : m <= c[2]
    IN  <<i, j, k>>

\* the sum of the sizes of get_matching_blocks()
RECURSIVE Matches(_, _)
Matches(a, b) ==
    IF a = <<>> \/ b = <<>> THEN 0
    ELSE LET m == LongestMatch(a, b)
         IN  IF m[3] = 0 THEN 0
             ELSE m[3]
                  + Matches(SubSeq(a, 1, m[1] - 1), SubSeq(b, 1, m[2] - 1))
                  + Matches(SubSeq(a, m[1] + m[3], Len(a)), SubSeq(b, m[2] + m[3], Len(b)))

\* a score is kept as the fraction <<numerator, denominator>> of hundredths:
\* ratio() = 2.0 * matches / (len(a) + len(b)), 1.0 when both are empty;
\* bonus is the number of hundredths added to it
Score(a, b, bonus) ==
    LET T == Len(a) + Len(b)
    IN  IF T = 0 THEN <<100 + bonus, 1>>
        ELSE <<200 * Matches(a, b) + bonus * T, T>>

\* a bug: a score equal to the threshold is dropped
ScoreAbove(sc, threshold) == sc[1] > threshold * sc[2]

\* score >= threshold, threshold in hundredths
ScoreAtLeast(sc, threshold) == sc[1] >= threshold * sc[2]

\* score x > score y
ScoreGreater(x, y) == x[1] * y[2] > y[1] * x[2]

\* sorted(..., key=score, reverse=True): stable, so equal scores keep their order
RECURSIVE InsertByScore(_, _)
InsertByScore(sorted, e) ==
    IF sorted = <<>> THEN <<e>>
    ELSE IF ScoreGreater(e.score, sorted[1].score)
         THEN <<e>> \o sorted
         ELSE <<sorted[1]>> \o InsertByScore(Tail(sorted), e)

RECURSIVE SortByScore(_)
SortByScore(scored) ==
    IF scored = <<>> THEN <<>>
    ELSE InsertByScore(SortByScore(SubSeq(scored, 1, Len(scored) - 1)), scored[Len(scored)])

(***************************************************************************)
(* The library: the same records seen through the Zotero web API and       *)
(* through zotero.sqlite.  Titles, dates, DOIs and keys are not written by *)
(* this program; only the tags are.                                        *)
(***************************************************************************)
ItemIDs == {1, 2, 3, 4}

Item(i) ==
    CASE i = 1 -> [key |-> "K1", libraryID |-> 1,
                   title |-> <<"D","e","e","p"," ","L","e","a","r","n">>,
                   date |-> <<"2","0","2","0","-","0","5","-","0","1">>,
                   DOI |-> <<"1","0",".","1","/","a">>]
      [] i = 2 -> [key |-> "K2", libraryID |-> 1,
                   title |-> <<"d","e","e","p"," ","l","e","a","r","n">>,
                   date |-> <<"2","0","2","1">>,
                   DOI |-> <<>>]
      [] i = 3 -> [key |-> "K3", libraryID |-> 1,
                   title |-> <<"g","r","a","p","h"," ","n","e","t","s">>,
                   date |-> <<>>,
                   DOI |-> <<"1","0",".","9","/","z">>]
      [] i = 4 -> [key |-> "K4", libraryID |-> 2,
                   title |-> <<"d","e","e","p"," ","l","e","a","r","n">>,
                   date |-> <<"2","0","2","0">>,
                   DOI |-> <<>>]

\* table groups: groupID -> libraryID
Groups == { [groupID |-> 123, libraryID |-> 1] }

\* the library_id argument of the call
library_id == 123

\* the fuzzy_threshold argument of the call, in hundredths (default 0.90)
fuzzy_threshold == 90

\* the year bonus of _search_fuzzy, in hundredths (score += 0.02)
YearBonus == 2

\* every row of table items, in rowid order
LibrarySeqAll == <<1, 2, 3, 4>>

\* the items of the library the remote base URL names, in the order the server lists them
LibrarySeq ==
    LET InLibrary(i) ==
            \E g \in Groups : g.groupID = library_id /\ g.libraryID = Item(i).libraryID
    IN  SelectSeq(LibrarySeqAll, InLibrary)

LibraryItems == { LibrarySeq[n] : n \in 1..Len(LibrarySeq) }

\* GET {base}/items?q=...&qmode=...: the server answers with the items of the
\* library in which the phrase q occurs, case-insensitively, in a field the
\* mode searches (title and date for titleCreatorYear; every field for everything)
ServerSearch(q, qmode) ==
    LET ql == Lower(q)
        Hit(i) ==
            \/ Contains(Lower(Item(i).title), ql)
            \/ Contains(Lower(Item(i).date), ql)
            \/ qmode = "everything" /\ Contains(Lower(Item(i).DOI), ql)
    IN  SelectSeq(LibrarySeq, Hit)

\* zyear of a record: _guess_year(_norm(date) or _norm(publicationYear));
\* the records of this library carry no publicationYear
ZYear(i) == GuessYear(IF Norm(Item(i).date) # <<>> THEN Norm(Item(i).date) ELSE Norm(<<>>))

\* _search_by_doi (ok: the GET answered 200)
SearchByDoi(doi0, ok) ==
    LET doi == NormalizeDoi(doi0)
        Same(i) == NormalizeDoi(Item(i).DOI) = doi
    IN  IF doi = <<>> THEN <<>>
        ELSE IF ~ok THEN <<>>
        ELSE SelectSeq(ServerSearch(doi, "everything"), Same)

\* a bug: the title decides alone, the year is not compared
SearchByTitleAnyYear(title0, year, ok) ==
    LET title == Norm(title0)
        tl == Lower(title)
        Keep(i) == Lower(Norm(Item(i).title)) = tl
    IN  IF title = <<>> THEN <<>>
        ELSE IF ~ok THEN <<>>
        ELSE SelectSeq(ServerSearch(title, "titleCreatorYear"), Keep)

\* _search_by_title_year (ok: the GET answered 200)
SearchByTitleYear(title0, year, ok) ==
    LET title == Norm(title0)
        tl == Lower(title)
        Keep(i) ==
            /\ Lower(Norm(Item(i).title)) = tl
            /\ (year = <<>> \/ ZYear(i) = <<>> \/ Lower(year) = Lower(ZYear(i)))
    IN  IF title = <<>> THEN <<>>
        ELSE IF ~ok THEN <<>>
        ELSE SelectSeq(ServerSearch(title, "titleCreatorYear"), Keep)

\* the score _search_fuzzy gives record i
FuzzyScore(tl, year, i) ==
    Score(tl, Lower(Norm(Item(i).title)),
          IF year # <<>> /\ ZYear(i) = year THEN YearBonus ELSE 0)

\* the (score, it) pairs of a scan
ScoredSeq(seq, sc) == [n \in 1..Len(seq) |-> [item |-> seq[n], score |-> sc[seq[n]]]]

\* [it for _, it in scored]
ItemsOf(scored) == [n \in 1..Len(scored) |-> scored[n].item]

\* a bug: the body of the answer is scored whatever its status is
SearchFuzzyAnyStatus(title0, year, threshold, ok) ==
    LET title == Norm(title0)
        tl == Lower(title)
        HasTitle(i) == Lower(Norm(Item(i).title)) # <<>>
        sc == [i \in ItemIDs |-> FuzzyScore(tl, year, i)]
        Keep(e) == ScoreAtLeast(e.score, threshold)
    IN  IF title = <<>> THEN <<>>
        ELSE ItemsOf(SortByScore(
                 SelectSeq(ScoredSeq(SelectSeq(ServerSearch(title, "everything"), HasTitle), sc),
                        Keep)))

\* _search_fuzzy (ok: the GET answered 200)
SearchFuzzy(title0, year, threshold, ok) ==
    LET title == Norm(title0)
        tl == Lower(title)
        HasTitle(i) == Lower(Norm(Item(i).title)) # <<>>
        sc == [i \in ItemIDs |-> FuzzyScore(tl, year, i)]
        Keep(e) == ScoreAtLeast(e.score, threshold)
    IN  IF title = <<>> THEN <<>>
        ELSE IF ~ok THEN <<>>
        ELSE ItemsOf(SortByScore(
                 SelectSeq(ScoredSeq(SelectSeq(ServerSearch(title, "everything"), HasTitle), sc),
                        Keep)))

\* _find_items_by_title_year_sqlite: the items of the group's library whose
\* title is similar enough; year is not read
FindItemsByTitleYearSqlite(title0, year, libid, threshold) ==
    LET title == Lower(Norm(title0))
        InGroup(i) == \E g \in Groups : g.groupID = libid /\ g.libraryID = Item(i).libraryID
        sc == [i \in ItemIDs |-> Score(title, Lower(Norm(Item(i).title)), 0)]
        Keep(e) == ScoreAtLeast(e.score, threshold)
        All == SelectSeq(LibrarySeqAll, InGroup)
    IN  IF title = <<>> THEN <<>>
        ELSE IF ~\E g \in Groups : g.groupID = libid THEN <<>>
        ELSE ItemsOf(SortByScore(SelectSeq(ScoredSeq(All, sc), Keep)))

(***************************************************************************)
(* The CSV                                                                 *)
(***************************************************************************)
Txt_deep_learn == <<"d","e","e","p"," ","l","e","a","r","n">>
Txt_iso_time == <<"2","0","2","0","-","0","5","-","0","1","T","0","9",":","3","0",":","0","0","Z">>
Txt_keep == <<"k","e","e","p">>

\* the cells of the rows a CSV may hold, as pandas hands them over: text, NaN
\* for an empty cell, "" for a column the file does not have
Rows == {
    [title |-> Txt_deep_learn, year |-> <<"2","0","2","0">>, doi |-> NaN,
     asreview_label |-> <<"1">>, asreview_time |-> Txt_iso_time, asreview_note |-> Txt_keep],
    [title |-> <<"D","e","e","p"," "," ","l","e","a","r","n">>, year |-> <<>>, doi |-> NaN,
     asreview_label |-> <<"0">>, asreview_time |-> <<>>, asreview_note |-> NaN],
    [title |-> <<"g","r","a","p","h"," ","n","e","t","s">>, year |-> <<"2","0","1","9">>,
     doi |-> <<"h","t","t","p","s",":","/","/","d","o","i",".","o","r","g","/","1","0",".","1","/","A">>,
     asreview_label |-> <<" ","Y","e","s"," ">>, asreview_time |-> <<"s","o","o","n">>,
     asreview_note |-> Txt_keep],
    [title |-> Txt_deep_learn, year |-> <<>>, doi |-> NaN,
     asreview_label |-> <<"m","a","y","b","e">>, asreview_time |-> Txt_iso_time,
     asreview_note |-> Txt_keep],
    [title |-> <<"u","n","k","n","o","w","n"," ","x","x">>, year |-> <<>>, doi |-> NaN,
     asreview_label |-> <<"1">>, asreview_time |-> Txt_iso_time, asreview_note |-> NaN],
    [title |-> <<"g","r","a","p","h"," ","n","e","t">>, year |-> <<>>, doi |-> NaN,
     asreview_label |-> <<"0">>, asreview_time |-> Txt_iso_time, asreview_note |-> NaN],
    [title |-> <<"d","e","e","p"," ","l","e","a","r","m">>, year |-> <<>>, doi |-> NaN,
     asreview_label |-> <<"1">>, asreview_time |-> <<>>, asreview_note |-> Txt_keep],
    [title |-> <<>>, year |-> <<>>, doi |-> NaN,
     asreview_label |-> <<"1">>, asreview_time |-> <<>>, asreview_note |-> NaN]
}

\* the columns of df as apply_asreview_decisions normalises them before the loop
DfRow(raw) ==
    [title |-> Norm(raw.title),
     year |-> Norm(raw.year),
     doi |-> NormalizeDoi(raw.doi),
     asreview_label |-> raw.asreview_label,
     asreview_time |-> raw.asreview_time,
     asreview_note |-> raw.asreview_note]

(***************************************************************************)
(* The tags of the library                                                 *)
(***************************************************************************)
TagTopic == <<"t","o","p","i","c">>
TagReviewTodo == <<"R","e","v","i","e","w",":","t","o","d","o">>
TagOldDecision == REVIEW_DECISION_PREFIX \o EXCLUDED
TagOldTime == REVIEW_TIME_PREFIX \o <<"2","0","1","9","-","0","1","-","0","1"," ","0","0",":","0","0">>

\* the tag sets a record may carry before the call
InitTagSets == { {}, {TagTopic, TagReviewTodo, TagOldDecision, TagOldTime} }

\* table tags before the call
InitTagsTable == { [tagID |-> 1, name |-> TagTopic], [tagID |-> 2, name |-> TagReviewTodo],
                   [tagID |-> 3, name |-> TagOldDecision], [tagID |-> 4, name |-> TagOldTime] }

\* the names of the tags linked to an item in zotero.sqlite
LinkedTags(tags, links, item_id) ==
    { t.name : t \in { u \in tags : <<item_id, u.tagID>> \in links } }

\* the key of the library's items, as the remote API names them
LibraryKeys == { Item(i).key : i \in LibraryItems }

\* the tag set of record i in the store the call works on
Tags(i) ==
    IF use_sqlite THEN LinkedTags(tagsTable, itemTags, i)
    ELSE IF Item(i).key \in DOMAIN remoteTags THEN remoteTags[Item(i).key] ELSE {}

AllTags == [i \in ItemIDs |-> Tags(i)]

\* UpdateReport()
NewReport == [updated |-> 0, not_found |-> 0, errors |-> 0]

NoRow == [title |-> <<>>, year |-> <<>>, doi |-> <<>>, asreview_label |-> <<>>,
          asreview_time |-> <<>>, asreview_note |-> <<>>]

NoEvent == [kind |-> "none", raw |-> NoRow, items |-> <<>>, tags_to_set |-> <<>>,
            preTags |-> [i \in ItemIDs |-> {}], preTable |-> {}, preLinks |-> {},
            preReport |-> NewReport, prePuts |-> {}, accepted |-> {}, rejected |-> {},
            searchFailed |-> FALSE, prevRaw |-> NoRow, prevAccepted |-> {}]

InitStore ==
    /\ pc = "idle"
    /\ use_sqlite = FALSE
    /\ dry_run = FALSE
    /\ idx = 0
    /\ report = NewReport
    /\ puts = {}
    /\ ev = NoEvent
    /\ tagsTable = InitTagsTable
    /\ \E f \in [LibraryItems -> InitTagSets] :
          LET full(i) == IF i \in LibraryItems THEN f[i] ELSE {TagTopic, TagOldDecision, TagOldTime}
          IN  /\ remoteTags = [k \in LibraryKeys |->
                                  f[CHOOSE i \in LibraryItems : Item(i).key = k]]
              /\ itemTags = { <<p[1], p[2].tagID>> :
                                p \in { q \in ItemIDs \X InitTagsTable : q[2].name \in full(q[1]) } }

(***************************************************************************)
(* The SQLite branch of the row loop                                       *)
(***************************************************************************)
\* name LIKE 'review:%': SQLite's LIKE folds the case of ASCII letters
LikeReview(name) == StartsWith(Lower(name), Lower(TAG_PREFIX_REVIEW))

\* a bug: the lowest tagID is read instead of the highest
MinTagID(tags) ==
    IF tags = {} THEN 0
    ELSE CHOOSE m \in { t.tagID : t \in tags } : \A t \in tags : m <= t.tagID

\* SELECT MAX(tagID) FROM tags, None read as 0
MaxTagID(tags) ==
    IF tags = {} THEN 0
    ELSE CHOOSE m \in { t.tagID : t \in tags } : \A t \in tags : t.tagID <= m

\* the DELETE FROM itemTags statements: the links of the item to tags named review:*
DeleteReviewLinks(tags, links, item_id) ==
    links \ { <<item_id, t.tagID>> : t \in { u \in tags : LikeReview(u.name) } }

\* a bug: a tag whose row exists already is taken to be linked already
RECURSIVE InsertTagsSkipExisting(_, _, _)
InsertTagsSkipExisting(db, item_id, tags_to_set) ==
    IF tags_to_set = <<>> THEN db
    ELSE LET tag == tags_to_set[1]
             found == { t \in db.tags : t.name = tag }
             tag_id == MaxTagID(db.tags) + 1
         IN  IF found # {} THEN InsertTagsSkipExisting(db, item_id, Tail(tags_to_set))
             ELSE InsertTagsSkipExisting(
                      [db EXCEPT !.tags = db.tags \cup { [tagID |-> tag_id, name |-> tag] },
                                 !.links = db.links \cup { <<item_id, tag_id>> }],
                      item_id, Tail(tags_to_set))

\* the loop over tags_to_set for one item: reuse the tag row of that name or
\* insert one with MAX(tagID) + 1, then link it (INSERT OR IGNORE)
RECURSIVE InsertTags(_, _, _)
InsertTags(db, item_id, tags_to_set) ==
    IF tags_to_set = <<>> THEN db
    ELSE LET tag == tags_to_set[1]
             found == { t \in db.tags : t.name = tag }
             tag_id == IF found # {}
                       THEN (CHOOSE t \in found : \A u \in found : t.tagID <= u.tagID).tagID
                       ELSE MaxTagID(db.tags) + 1
             tags2 == IF found # {} THEN db.tags
                      ELSE db.tags \cup { [tagID |-> tag_id, name |-> tag] }
         IN  InsertTags([db EXCEPT !.tags = tags2,
                                   !.links = db.links \cup { <<item_id, tag_id>> }],
                        item_id, Tail(tags_to_set))

\* the body of "for match in items" for one match
ApplySqliteMatch(db, match, tags_to_set) ==
    LET key == Item(match).key
        rows == { i \in ItemIDs : Item(i).key = key }
    IN  IF rows = {} THEN [db EXCEPT !.errors = db.errors + 1]
        ELSE LET item_id == CHOOSE i \in rows : \A j \in rows : i <= j
                 cleared == [db EXCEPT !.links = DeleteReviewLinks(db.tags, db.links, item_id)]
                 written == InsertTags(cleared, item_id, tags_to_set)
             IN  [written EXCEPT !.updated = written.updated + 1]

\* a bug: only the best match is written
ApplySqliteFirstOnly(db, items, tags_to_set) ==
    IF items = <<>> THEN db ELSE ApplySqliteMatch(db, items[1], tags_to_set)

\* "for match in items" on the SQLite branch
RECURSIVE ApplySqlite(_, _, _)
ApplySqlite(db, items, tags_to_set) ==
    IF items = <<>> THEN db
    ELSE ApplySqlite(ApplySqliteMatch(db, items[1], tags_to_set), Tail(items), tags_to_set)

(***************************************************************************)
(* The remote branch of the row loop                                       *)
(***************************************************************************)
\* ensure_tag for every tag of tags_to_set: append the tags not yet in the list
EnsureTags(tags, tags_to_set) ==
    tags \cup { tags_to_set[n] : n \in 1..Len(tags_to_set) }

\* a bug: the DOI of the row decides the candidates when the row has one
RemoteItemsByDoi(r, tyOk, fzOk) ==
    LET title == Norm(r.title)
        year == Norm(r.year)
        doi == Norm(Lower(r.doi))
        ty_matches == SearchByTitleYear(title, year, tyOk)
    IN  IF doi # <<>> /\ doi # <<"n","a","n">> THEN SearchByDoi(doi, tyOk)
        ELSE IF ty_matches # <<>> THEN ty_matches
        ELSE SearchFuzzy(title, year, fuzzy_threshold, fzOk)

\* items of the remote branch for row r of df: the exact title+year matches,
\* else the fuzzy ones; doi is read from the row and not used
RemoteItems(r, tyOk, fzOk) ==
    LET title == Norm(r.title)
        year == Norm(r.year)
        doi == Norm(Lower(r.doi))
        ty_matches == SearchByTitleYear(title, year, tyOk)
    IN  IF ty_matches # <<>> THEN ty_matches
        ELSE SearchFuzzy(title, year, fuzzy_threshold, fzOk)

SeqToSet(seq) == { seq[n] : n \in 1..Len(seq) }

\* the values the row loop computes from a row alone, computed once per row of Rows
TagsToSetOf == [raw \in Rows |-> TagsToSet(DfRow(raw))]

SqliteItemsOf ==
    [raw \in Rows |->
        FindItemsByTitleYearSqlite(Norm(DfRow(raw).title), Norm(DfRow(raw).year),
                                   library_id, fuzzy_threshold)]

RemoteItemsOf ==
    [raw \in Rows, tyOk \in BOOLEAN, fzOk \in BOOLEAN |->
        RemoteItems(DfRow(raw), tyOk, fzOk)]

(***************************************************************************)
(* Actions                                                                 *)
(***************************************************************************)
\* apply_asreview_decisions is called: the arguments are fixed, the report is new
Call ==
    /\ pc = "idle"
    /\ pc' = "loop"
    /\ use_sqlite' \in BOOLEAN
    /\ dry_run' \in BOOLEAN
    /\ idx' = 0
    /\ report' = NewReport
    /\ UNCHANGED <<remoteTags, tagsTable, itemTags, puts, ev>>

\* what an iteration records of the state it started from and of what it did
Event(kind, raw, items, tags_to_set, accepted, rejected, searchFailed) ==
    [kind |-> kind, raw |-> raw, items |-> items, tags_to_set |-> tags_to_set,
     preTags |-> AllTags, preTable |-> tagsTable, preLinks |-> itemTags,
     preReport |-> report, prePuts |-> puts, accepted |-> accepted, rejected |-> rejected,
     searchFailed |-> searchFailed, prevRaw |-> ev.raw, prevAccepted |-> ev.accepted]

\* the database after the SQLite branch of one iteration, with the two counters it moves
RowSqliteResult(tags, links, rep, items, tags_to_set) ==
    LET db0 == [tags |-> tags, links |-> links, updated |-> rep.updated, errors |-> rep.errors]
    IN  IF tags_to_set = <<>> THEN db0 ELSE ApplySqlite(db0, items, tags_to_set)

\* one iteration of the row loop with db_path given
RowSqlite(raw) ==
    /\ pc = "loop"
    /\ use_sqlite
    /\ idx < MaxRows
    /\ LET tags_to_set == TagsToSetOf[raw]
           items == SqliteItemsOf[raw]
           db == RowSqliteResult(tagsTable, itemTags, report, items, tags_to_set)
       IN  /\ tagsTable' = db.tags
           /\ itemTags' = db.links
           /\ report' = [report EXCEPT !.updated = db.updated, !.errors = db.errors]
           /\ ev' = Event("sqlite", raw, items, tags_to_set,
                          IF tags_to_set = <<>> THEN {} ELSE SeqToSet(items), {}, FALSE)
    /\ idx' = idx + 1
    /\ UNCHANGED <<pc, use_sqlite, dry_run, remoteTags, puts>>

\* the candidates of a row for which the remote branch sends a PUT
Sent(items, tags_to_set, dry) ==
    IF items = <<>> \/ (tags_to_set = <<>> /\ ~dry) \/ dry THEN {} ELSE SeqToSet(items)

\* a bug: the status of the PUT is not read, every PUT counts as an update
RowRemoteReportAnyStatus(rep, items, tags_to_set, dry, accept) ==
    IF items = <<>> THEN [rep EXCEPT !.not_found = rep.not_found + 1]
    ELSE IF tags_to_set = <<>> /\ ~dry THEN rep
    ELSE [rep EXCEPT !.updated = rep.updated + Len(items)]

\* the report after the remote branch of one iteration; accept holds the items
\* whose PUT the server answers with 200 or 204
RowRemoteReport(rep, items, tags_to_set, dry, accept) ==
    LET sent == Sent(items, tags_to_set, dry)
    IN  IF items = <<>> THEN [rep EXCEPT !.not_found = rep.not_found + 1]
        ELSE IF tags_to_set = <<>> /\ ~dry THEN rep
        ELSE IF dry THEN [rep EXCEPT !.updated = rep.updated + Len(items)]
        ELSE [rep EXCEPT !.updated = rep.updated + Cardinality(sent \cap accept),
                         !.errors = rep.errors + Cardinality(sent \ accept)]

\* a GET the iteration sent was answered with a status other than 200
SearchFailed(raw, tyOk, fzOk) ==
    /\ Norm(DfRow(raw).title) # <<>>
    /\ \/ ~tyOk
       \/ ~fzOk /\ RemoteItemsOf[raw, TRUE, FALSE] = <<>>

\* one iteration of the row loop against the web API: tyOk and fzOk say whether
\* the two GETs answer 200, accept is the set of items whose PUT the server
\* answers with 200 or 204
RowRemote(raw, tyOk, fzOk, accept) ==
    /\ pc = "loop"
    /\ ~use_sqlite
    /\ idx < MaxRows
    /\ accept \subseteq SeqToSet(RemoteItemsOf[raw, tyOk, fzOk])
    /\ LET tags_to_set == TagsToSetOf[raw]
           items == RemoteItemsOf[raw, tyOk, fzOk]
           sent == Sent(items, tags_to_set, dry_run)
           ok == sent \cap accept
       IN  /\ report' = RowRemoteReport(report, items, tags_to_set, dry_run, accept)
           /\ remoteTags' = [k \in DOMAIN remoteTags |->
                                IF \E i \in ok : Item(i).key = k
                                THEN EnsureTags(remoteTags[k], tags_to_set)
                                ELSE remoteTags[k]]
           /\ puts' = puts \cup { Item(i).key : i \in sent }
           /\ ev' = Event("remote", raw, items, tags_to_set, ok, sent \ ok,
                          SearchFailed(raw, tyOk, fzOk))
    /\ idx' = idx + 1
    /\ UNCHANGED <<pc, use_sqlite, dry_run, tagsTable, itemTags>>

\* the CSV has no more rows: return report.to_dict()
Return ==
    /\ pc = "loop"
    /\ pc' = "done"
    /\ UNCHANGED <<use_sqlite, dry_run, idx, report, remoteTags, tagsTable, itemTags, puts, ev>>

\* no helper is applied on its own and no transaction is followed statement by statement
NoArg == [kind |-> "none"]
NoRet == [kind |-> "none"]
NoTxn == [open |-> FALSE, covered |-> {}]
UnitIdle == arg = NoArg /\ ret = NoRet /\ txn = NoTxn

\* one call on a CSV whose rows are those the loop draws
Init ==
    /\ InitStore
    /\ df = <<>> /\ run = 1 /\ snapshot = [i \in ItemIDs |-> {}] /\ clean = TRUE
    /\ UnitIdle

Next ==
    \/ Call /\ UNCHANGED <<file, unit>>
    \/ \E raw \in Rows : RowSqlite(raw) /\ UNCHANGED <<file, unit>>
    \/ \E raw \in Rows, tyOk \in BOOLEAN, fzOk \in BOOLEAN, accept \in SUBSET LibraryItems :
          RowRemote(raw, tyOk, fzOk, accept) /\ UNCHANGED <<file, unit>>
    \/ Return /\ UNCHANGED <<file, unit>>

Spec == Init /\ [][Next]_vars

(***************************************************************************)
(* The same CSV applied twice: the call returns and is made again with the *)
(* same arguments                                                          *)
(***************************************************************************)
Files == UNION { [1..n -> Rows] : n \in 1..MaxFile }

\* the records of the library start with the same tags
InitTwice ==
    /\ InitStore
    /\ \A i \in LibraryItems, j \in LibraryItems :
          remoteTags[Item(i).key] = remoteTags[Item(j).key]
    /\ df \in Files
    /\ run = 1
    /\ snapshot = [i \in ItemIDs |-> {}]
    /\ clean = TRUE
    /\ UnitIdle

CallFile == Call /\ UNCHANGED <<file, unit>>

RowSqliteFile ==
    /\ idx < Len(df)
    /\ RowSqlite(df[idx + 1])
    /\ UNCHANGED <<file, unit>>

RowRemoteFile ==
    /\ idx < Len(df)
    /\ \E tyOk \in BOOLEAN, fzOk \in BOOLEAN, accept \in SUBSET LibraryItems :
          RowRemote(df[idx + 1], tyOk, fzOk, accept)
    /\ clean' = (clean /\ ~ev'.searchFailed /\ ev'.rejected = {})
    /\ UNCHANGED <<df, run, snapshot, unit>>

ReturnFile ==
    /\ idx = Len(df)
    /\ Return
    /\ UNCHANGED <<file, unit>>

CallAgain ==
    /\ pc = "done"
    /\ run = 1
    /\ run' = 2
    /\ snapshot' = AllTags
    /\ pc' = "loop"
    /\ idx' = 0
    /\ report' = NewReport
    /\ UNCHANGED <<use_sqlite, dry_run, remoteTags, tagsTable, itemTags, puts, ev, df, clean, unit>>

NextTwice == CallFile \/ RowSqliteFile \/ RowRemoteFile \/ ReturnFile \/ CallAgain

SpecTwice == InitTwice /\ [][NextTwice]_vars

(***************************************************************************)
(* Properties                                                              *)
(***************************************************************************)
\* an iteration of the row loop has run
Acted == ev.kind # "none"

\* the decision of the row the latest iteration read
EvDecision == LabelToDecision(ev.raw.asreview_label)

\* the number of tags that start with a prefix
CountPrefix(tags, prefix) == Cardinality({ t \in tags : StartsWith(t, prefix) })

\* the row's tags are on record i
HasRowTags(i) == \A n \in 1..Len(ev.tags_to_set) : ev.tags_to_set[n] \in Tags(i)

\* C1: after a decision is committed to a matched record, on either backend, the
\* record holds exactly one review:Decision= tag, one review:Time= tag iff the
\* formatted time is non-empty and one review:Reason= tag iff the reason is non-empty
C1_OneTagPerKey ==
    \A i \in ev.accepted :
        /\ CountPrefix(Tags(i), REVIEW_DECISION_PREFIX) = 1
        /\ CountPrefix(Tags(i), REVIEW_TIME_PREFIX) =
              (IF FormatReviewTime(ev.raw.asreview_time) # <<>> THEN 1 ELSE 0)
        /\ CountPrefix(Tags(i), REVIEW_REASON_PREFIX) =
              (IF ReasonValue(ev.raw.asreview_note) # <<>> THEN 1 ELSE 0)

\* C2: every tag that does not start with exactly "review:" and was on a record
\* before an iteration is still on it afterwards, on either backend
C2_Preservation ==
    Acted => \A i \in ItemIDs :
                \A t \in ev.preTags[i] : ~StartsWith(t, TAG_PREFIX_REVIEW) => t \in Tags(i)

\* the row of the latest iteration was committed to record i by the iteration
\* before and is committed to it again
Reapplied(i) == i \in ev.accepted \cap ev.prevAccepted /\ ev.prevRaw = ev.raw

C4_DryRunNoMutation ==
    (Acted /\ dry_run) =>
        /\ puts = {}
        /\ tagsTable = ev.preTable
        /\ itemTags = ev.preLinks

\* the report the dry_run=True branch gives for the row and candidates of the latest iteration
DryReport ==
    IF ev.kind = "remote"
    THEN RowRemoteReport(ev.preReport, ev.items, ev.tags_to_set, TRUE, {})
    ELSE LET db == RowSqliteResult(ev.preTable, ev.preLinks, ev.preReport, ev.items,
                                   ev.tags_to_set)
         IN  [ev.preReport EXCEPT !.updated = db.updated, !.errors = db.errors]

\* C5: a run with dry_run=False in which every commit succeeds counts every row
\* as a run with dry_run=True does, rows without a decision included
C5_DryRunSameCounters ==
    (Acted /\ ~dry_run /\ ev.rejected = {}) => report = DryReport

\* C6: a row without candidates adds one to not_found and leaves updated and
\* errors alone, on either backend
C6_NotFound ==
    (Acted /\ ev.items = <<>>) =>
        report = [ev.preReport EXCEPT !.not_found = ev.preReport.not_found + 1]

\* C7: a row without a decision that matches a record changes no tag and no
\* counter, in every mode
C7_NoDecisionNoEffect ==
    (Acted /\ EvDecision = NoDecision /\ ev.items # <<>>) =>
        /\ report = ev.preReport
        /\ AllTags = ev.preTags
        /\ tagsTable = ev.preTable
        /\ itemTags = ev.preLinks

\* the commits of the latest iteration were attempted and none was rejected
AllCommitted ==
    /\ Acted
    /\ EvDecision # NoDecision
    /\ use_sqlite \/ ~dry_run
    /\ ev.rejected = {}

C9_CommitAccounting ==
    (Acted /\ ~dry_run /\ EvDecision # NoDecision /\ ev.items # <<>>) =>
        /\ ev.accepted \cup ev.rejected = SeqToSet(ev.items)
        /\ ev.accepted \cap ev.rejected = {}
        /\ report.updated = ev.preReport.updated + Cardinality(ev.accepted)
        /\ report.errors = ev.preReport.errors + Cardinality(ev.rejected)
        /\ report.not_found = ev.preReport.not_found
        /\ \A i \in ev.accepted : HasRowTags(i)
        /\ ev.kind = "remote" => puts = ev.prePuts \cup { Item(i).key : i \in SeqToSet(ev.items) }

\* C9 witness: a commit of the first row was rejected, and the second row was
\* still processed and committed
C9_Witness ==
    /\ ~dry_run /\ ~use_sqlite
    /\ idx = 2
    /\ ev.preReport.errors >= 1
    /\ ev.rejected = {} /\ ev.accepted # {}
    /\ report.updated > ev.preReport.updated

\* the row of the latest iteration carries a DOI
EvHasDoi == ev.raw.doi # NaN /\ NormalizeDoi(ev.raw.doi) # <<>>

\* the records of the library whose normalized DOI is the row's
SameDoi == { i \in LibraryItems : NormalizeDoi(Item(i).DOI) = NormalizeDoi(ev.raw.doi) }

\* the title of record i is the title of the row, or similar enough to it with
\* the year bonus counted in; computed once per row of Rows
TitleMatchesOf ==
    [raw \in Rows, i \in ItemIDs |->
        ScoreAtLeast(Score(Lower(Norm(DfRow(raw).title)), Lower(Norm(Item(i).title)),
                           YearBonus),
                     fuzzy_threshold)]

TitleMatches(i) == TitleMatchesOf[ev.raw, i]

MatchTitles == { Txt_deep_learn,
                 <<"D","e","e","p"," "," ","l","e","a","r","n">>,
                 <<"d","e","e","p"," ","l","e","a","r","m">>,
                 <<"g","r","a","p","h"," ","n","e","t">>,
                 <<"g","r","a","p","h"," ","n","e","t","s">>,
                 <<>> }

\* the year cells looked up: "" (the CSV has no year column), NaN (the cell is
\* empty), two years records of the library have, and a year none of them has
MatchYears == { <<>>, NaN, <<"2","0","2","0">>, <<"2","0","2","1">>, <<"2","0","1","9">> }

\* the values of fuzzy_threshold looked up, in hundredths
MatchThresholds == { 80, 90, 95, 100, 102 }

MatchArgs ==
    [kind : {"match"}, title : MatchTitles, year : MatchYears,
     threshold : MatchThresholds, sqlite : BOOLEAN, tyOk : BOOLEAN, fzOk : BOOLEAN]

\* the row of df a title cell and a year cell make
MatchRow(a) == DfRow([NoRow EXCEPT !.title = a.title, !.year = a.year])

\* title and year as the row loop reads them from df
MatchTitle(a) == Norm(MatchRow(a).title)
MatchYear(a) == Norm(MatchRow(a).year)

\* the library before any call, no record tagged
InitBare ==
    /\ InitStore
    /\ \A k \in LibraryKeys : remoteTags[k] = {}
    /\ df = <<>> /\ run = 1 /\ snapshot = [i \in ItemIDs |-> {}] /\ clean = TRUE
    /\ txn = NoTxn
    /\ ret = NoRet

InitMatch == InitBare /\ arg \in MatchArgs

\* the three searches for one title and year, and the candidates the row loop
\* takes for them with the default fuzzy_threshold
Match ==
    /\ arg.kind = "match"
    /\ ret = NoRet
    /\ ret' = [kind |-> "match",
               exact |-> SearchByTitleYear(MatchTitle(arg), MatchYear(arg), arg.tyOk),
               fuzzy |-> SearchFuzzy(MatchTitle(arg), MatchYear(arg), arg.threshold, arg.fzOk),
               sqlite |-> FindItemsByTitleYearSqlite(MatchTitle(arg), MatchYear(arg),
                                                     library_id, arg.threshold),
               items |-> IF arg.sqlite
                         THEN FindItemsByTitleYearSqlite(MatchTitle(arg), MatchYear(arg),
                                                         library_id, fuzzy_threshold)
                         ELSE RemoteItems(MatchRow(arg), arg.tyOk, arg.fzOk)]
    /\ UNCHANGED <<core, file, arg, txn>>

NextMatch == Match

SpecMatch == InitMatch /\ [][NextMatch]_vars

\* the lookup has been made
Matched == ret.kind = "match"

\* the year cell of the lookup is absent
YearAbsent == arg.year = <<>> \/ arg.year = NaN

\* the normalized, case-folded title of record i is that of the lookup
SameTitle(i) == Lower(Norm(Item(i).title)) = Lower(Norm(arg.title))

\* record i matches the lookup by exact title and year, an absent year on
\* either side matching any year
ExactMatch(i) ==
    /\ SameTitle(i)
    /\ (YearAbsent \/ ZYear(i) = <<>> \/ Lower(Norm(arg.year)) = Lower(ZYear(i)))

\* C11: whenever a record matches by exact normalized title and year, the
\* candidates are exactly the exact matches, on both backends (read for the
\* lookups whose GETs are all answered with 200)
C11_ExactBeforeFuzzy ==
    (Matched /\ (arg.sqlite \/ (arg.tyOk /\ arg.fzOk))
       /\ \E i \in LibraryItems : ExactMatch(i)) =>
        SeqToSet(ret.items) = { i \in LibraryItems : ExactMatch(i) }

\* C12: in the exact title+year search a record with the row's title is a
\* match iff the row's year is absent, the record's year is absent, or the two
\* years are equal
C12_YearWildcard ==
    (Matched /\ arg.tyOk) =>
        \A i \in LibraryItems :
            SameTitle(i) => ((i \in SeqToSet(ret.exact)) <=> ExactMatch(i))

\* the records that have the title of the lookup and its year
OwnYear == { i \in LibraryItems : SameTitle(i) /\ ZYear(i) = Norm(arg.year) }

\* C13: when the store holds one record per year under one title, a row with
\* that title and a year gets exactly the record of its own year, on both
\* backends (read for the lookups whose title+year GET is answered with 200)
C13_YearDisambiguates ==
    (Matched /\ (arg.sqlite \/ arg.tyOk) /\ ~YearAbsent /\ OwnYear # {}
       /\ \E i \in LibraryItems : SameTitle(i) /\ i \notin OwnYear) =>
        SeqToSet(ret.items) = OwnYear

\* the records the fuzzy scan of a backend scores
Scanned(sqlite) ==
    IF MatchTitle(arg) = <<>> THEN {}
    ELSE IF sqlite THEN LibraryItems
    ELSE IF arg.fzOk THEN SeqToSet(ServerSearch(MatchTitle(arg), "everything"))
    ELSE {}

\* the score the fuzzy scan of a backend gives record i: the ratio, plus the
\* year bonus on the remote backend
ScanScore(sqlite, i) ==
    IF sqlite THEN Score(Lower(MatchTitle(arg)), Lower(Norm(Item(i).title)), 0)
    ELSE FuzzyScore(Lower(MatchTitle(arg)), MatchYear(arg), i)

\* C14: the fuzzy scan of either backend keeps a record iff its score is
\* greater than or equal to the threshold: equal is kept, below is dropped
C14_ThresholdBoundary ==
    Matched =>
        \A sqlite \in BOOLEAN :
            LET kept == SeqToSet(IF sqlite THEN ret.sqlite ELSE ret.fuzzy)
            IN  /\ kept \subseteq Scanned(sqlite)
                /\ \A i \in Scanned(sqlite) :
                      LET sc == ScanScore(sqlite, i)
                      IN  /\ sc[1] = arg.threshold * sc[2] => i \in kept
                          /\ sc[1] > arg.threshold * sc[2] => i \in kept
                          /\ sc[1] < arg.threshold * sc[2] => i \notin kept

\* C14 witness: on each backend a record whose score equals the threshold is
\* kept, and a record the SQLite scan scores below it is dropped
C14_Witness ==
    /\ Matched
    /\ \E i \in SeqToSet(ret.fuzzy) :
          ScanScore(FALSE, i)[1] = arg.threshold * ScanScore(FALSE, i)[2]
    /\ \E i \in SeqToSet(ret.sqlite) :
          ScanScore(TRUE, i)[1] = arg.threshold * ScanScore(TRUE, i)[2]
    /\ \E i \in Scanned(TRUE) : i \notin SeqToSet(ret.sqlite)

(***************************************************************************)
(* The decision cells of a row on their own: label, time and note are      *)
(* turned into decision_value, time_value, reason_value and tags_to_set    *)
(***************************************************************************)
\* the asreview_label cells tried: every label the code knows, some of them
\* with capitals and blanks, and labels it does not know
CellLabels == IncludedLabels \cup ExcludedLabels \cup
    { <<" ","Y","e","s"," ">>, <<"I","N","C","L","U","D","E","D">>, <<"T","r","u","e">>,
      <<"N"," ">>, <<"\t","F","a","l","s","e">>, <<"I","r","r","e","l","e","v","a","n","t">>,
      <<>>, <<" "," ">>, NaN, <<"m","a","y","b","e">>, <<"1",".","0">>, <<"2">>,
      <<"y","e","s"," ","n","o">>, <<"i","n","c","l","u","d","e">> }

\* the asreview_time cells tried: absent, empty, blank, a timestamp, a text
\* that is no timestamp
CellTimes == { NaN, <<>>, <<" ">>, Txt_iso_time, <<"s","o","o","n">> }

\* the asreview_note cells tried
CellNotes == { NaN, <<>>, <<" "," ">>, Txt_keep, <<" ","k","e","e","p"," "," ","i","t"," ">> }

CellArgs == [kind : {"cells"}, label : CellLabels, time : CellTimes, note : CellNotes]

\* the row of df the three cells make
CellRow(a) ==
    DfRow([NoRow EXCEPT !.asreview_label = a.label, !.asreview_time = a.time,
                        !.asreview_note = a.note])

InitCells == InitBare /\ arg \in CellArgs

\* the head of the row loop for the three cells
Derive ==
    /\ arg.kind = "cells"
    /\ ret = NoRet
    /\ ret' = [kind |-> "cells",
               time_value |-> FormatReviewTime(CellRow(arg).asreview_time),
               reason_value |-> ReasonValue(CellRow(arg).asreview_note),
               decision_value |-> LabelToDecision(CellRow(arg).asreview_label),
               tags_to_set |-> TagsToSet(CellRow(arg))]
    /\ UNCHANGED <<core, file, arg, txn>>

NextCells == Derive

SpecCells == InitCells /\ [][NextCells]_vars

\* the cells have been turned into values
Derived == ret.kind = "cells"

\* the label trimmed and case-folded
FoldedLabel == Lower(Strip(Str(arg.label)))

\* C15: the trimmed, case-folded label gives included iff it is one of 1,
\* included, relevant, yes, true, y; excluded iff it is one of 0, -1, excluded,
\* irrelevant, no, false, n; no decision otherwise, the empty label included
C15_LabelMapping ==
    Derived =>
        LET inc == FoldedLabel \in
                     { <<"1">>, <<"i","n","c","l","u","d","e","d">>,
                       <<"r","e","l","e","v","a","n","t">>, <<"y","e","s">>,
                       <<"t","r","u","e">>, <<"y">> }
            exc == FoldedLabel \in
                     { <<"0">>, <<"-","1">>, <<"e","x","c","l","u","d","e","d">>,
                       <<"i","r","r","e","l","e","v","a","n","t">>, <<"n","o">>,
                       <<"f","a","l","s","e">>, <<"n">> }
        IN  /\ ~(inc /\ exc)
            /\ (ret.decision_value = <<"i","n","c","l","u","d","e","d">>) <=> inc
            /\ (ret.decision_value = <<"e","x","c","l","u","d","e","d">>) <=> exc
            /\ (ret.decision_value = NoDecision) <=> (~inc /\ ~exc)

\* C15 witness: a label written with capitals and blanks gave a decision
C15_Witness ==
    /\ Derived
    /\ arg.label # FoldedLabel
    /\ ret.decision_value = INCLUDED

\* the tags of tags_to_set that start with a prefix
TagsWith(prefix) ==
    { t \in SeqToSet(ret.tags_to_set) : StartsWith(t, prefix) }

\* C16: the time formatter gives the empty string for a timestamp that is
\* absent, empty or not parseable, and such a row gets no review:Time= tag
C16_TimeEmptyOnFailure ==
    (Derived /\ (arg.time = NaN \/ Strip(arg.time) = <<>> \/ ~ParsesAsTime(arg.time))) =>
        /\ ret.time_value = <<>>
        /\ TagsWith(REVIEW_TIME_PREFIX) = {}

\* C17: tags_to_set is empty for a row without decision; otherwise it holds
\* review:Decision=<decision>, review:Time=<time_value> iff time_value is not
\* empty, review:Reason=<reason_value> iff reason_value is not empty, and
\* nothing else
C17_TargetTags ==
    Derived =>
        LET tags == SeqToSet(ret.tags_to_set)
            t_decision == { <<"r","e","v","i","e","w",":","D","e","c","i","s","i","o","n","=">>
                              \o ret.decision_value }
            t_time == IF ret.time_value # <<>>
                      THEN { <<"r","e","v","i","e","w",":","T","i","m","e","=">> \o ret.time_value }
                      ELSE {}
            t_reason == IF ret.reason_value # <<>>
                        THEN { <<"r","e","v","i","e","w",":","R","e","a","s","o","n","=">>
                                 \o ret.reason_value }
                        ELSE {}
        IN  /\ Len(ret.tags_to_set) = Cardinality(tags)
            /\ ret.decision_value = NoDecision => tags = {}
            /\ ret.decision_value # NoDecision => tags = t_decision \cup t_time \cup t_reason

\* C17 witness: a row with a decision and a reason and without a time got
\* exactly two tags
C17_Witness ==
    /\ Derived
    /\ ret.decision_value = EXCLUDED
    /\ ret.time_value = <<>>
    /\ ret.reason_value # <<>>
    /\ Len(ret.tags_to_set) = 2

(***************************************************************************)
(* Failures of the store (under Spec)                                      *)
(***************************************************************************)
\* C18: a search the remote API answers with a failure yields no candidate; a
\* row whose searches failed and left it without candidates adds one to
\* not_found and nothing else, no record is changed and no PUT is sent for it
C18_SearchFailure ==
    /\ \A raw \in Rows : RemoteItemsOf[raw, FALSE, FALSE] = <<>>
    /\ (Acted /\ ev.kind = "remote" /\ ev.searchFailed /\ ev.items = <<>>) =>
          /\ report = [ev.preReport EXCEPT !.not_found = ev.preReport.not_found + 1]
          /\ AllTags = ev.preTags
          /\ puts = ev.prePuts

\* C18 witness: two rows that match records by exact title when the API
\* answers were each left without candidates by failed searches, and each was
\* counted once in not_found
C18_Witness ==
    /\ Acted /\ ev.kind = "remote" /\ idx = 2
    /\ RemoteItemsOf[ev.prevRaw, TRUE, FALSE] # <<>>
    /\ RemoteItemsOf[ev.raw, TRUE, FALSE] # <<>>
    /\ ev.searchFailed /\ ev.items = <<>>
    /\ ev.preReport = [NewReport EXCEPT !.not_found = 1]
    /\ report = [NewReport EXCEPT !.not_found = 2]

(***************************************************************************)
(* The row loop with its failures: on the SQLite branch one step is one    *)
(* statement group of the connection (the DELETEs of a match, the INSERTs  *)
(* of a match, the commit), a store call may raise, and the process may be *)
(* stopped while a transaction is open.  Python's sqlite3 opens a          *)
(* transaction before the first DELETE or INSERT of a connection and keeps *)
(* it open until conn.commit(); a connection dropped without commit leaves *)
(* the database as it was committed last.                                  *)
(***************************************************************************)
\* the records of the library start with the same tags
InitFail ==
    /\ InitStore
    /\ \A i \in LibraryItems, j \in LibraryItems :
          remoteTags[Item(i).key] = remoteTags[Item(j).key]
    /\ df = <<>> /\ run = 1 /\ snapshot = [i \in ItemIDs |-> {}] /\ clean = TRUE
    /\ UnitIdle

FailCall == Call /\ UNCHANGED <<file, unit>>

FailRowRemote ==
    /\ \E raw \in Rows, tyOk \in BOOLEAN, fzOk \in BOOLEAN, accept \in SUBSET LibraryItems :
          RowRemote(raw, tyOk, fzOk, accept)
    /\ UNCHANGED <<file, unit>>

\* session.get or session.put raises (requests.ConnectionError: the host does
\* not answer); nothing in the row loop catches it
RaiseRemote ==
    /\ pc = "loop"
    /\ ~use_sqlite
    /\ idx < MaxRows
    /\ pc' = "raised"
    /\ UNCHANGED <<use_sqlite, dry_run, idx, report, remoteTags, tagsTable, itemTags, puts, ev>>
    /\ UNCHANGED <<file, unit>>

\* the head of an iteration on the SQLite branch: the candidates are looked
\* up, a row without tags is passed over, else a connection is opened
SqliteBegin(raw) ==
    /\ pc = "loop"
    /\ use_sqlite
    /\ idx < MaxRows
    /\ IF TagsToSetOf[raw] = <<>>
       THEN /\ idx' = idx + 1
            /\ UNCHANGED <<pc, txn>>
       ELSE /\ pc' = "row"
            /\ txn' = [open |-> TRUE, dropped |-> FALSE, covered |-> {},
                       items |-> SqliteItemsOf[raw], tags_to_set |-> TagsToSetOf[raw],
                       todo |-> SqliteItemsOf[raw], step |-> "delete",
                       tags |-> tagsTable, links |-> itemTags,
                       pre |-> [i \in ItemIDs |-> LinkedTags(tagsTable, itemTags, i)],
                       written |-> {}]
            /\ UNCHANGED idx
    /\ UNCHANGED <<use_sqlite, dry_run, report, remoteTags, tagsTable, itemTags, puts, ev>>
    /\ UNCHANGED <<file, arg, ret>>

\* a bug: the connection commits every statement as it is executed
SqliteDeleteAutocommit ==
    /\ pc = "row"
    /\ txn.todo # <<>>
    /\ txn.step = "delete"
    /\ txn' = [txn EXCEPT !.links = DeleteReviewLinks(txn.tags, txn.links, txn.todo[1]),
                          !.step = "insert"]
    /\ itemTags' = txn'.links
    /\ UNCHANGED <<pc, use_sqlite, dry_run, idx, report, remoteTags, tagsTable, puts, ev>>
    /\ UNCHANGED <<file, arg, ret>>

\* the DELETE statements for the next match, inside the open transaction
SqliteDelete ==
    /\ pc = "row"
    /\ txn.todo # <<>>
    /\ txn.step = "delete"
    /\ txn' = [txn EXCEPT !.links = DeleteReviewLinks(txn.tags, txn.links, txn.todo[1]),
                          !.step = "insert"]
    /\ UNCHANGED core
    /\ UNCHANGED <<file, arg, ret>>

\* the INSERT statements for that match, inside the open transaction, and
\* report.updated += 1
SqliteInsert ==
    /\ pc = "row"
    /\ txn.todo # <<>>
    /\ txn.step = "insert"
    /\ txn' = [InsertTags(txn, txn.todo[1], txn.tags_to_set)
                 EXCEPT !.step = "delete",
                        !.todo = Tail(txn.todo),
                        !.written = txn.written \cup {txn.todo[1]}]
    /\ report' = [report EXCEPT !.updated = report.updated + 1]
    /\ UNCHANGED <<pc, use_sqlite, dry_run, idx, remoteTags, tagsTable, itemTags, puts, ev>>
    /\ UNCHANGED <<file, arg, ret>>

\* conn.commit() after the last match of the row, conn.close(), continue
SqliteCommit ==
    /\ pc = "row"
    /\ txn.todo = <<>>
    /\ tagsTable' = txn.tags
    /\ itemTags' = txn.links
    /\ txn' = [txn EXCEPT !.open = FALSE, !.covered = txn.written]
    /\ idx' = idx + 1
    /\ pc' = "loop"
    /\ UNCHANGED <<use_sqlite, dry_run, report, remoteTags, puts, ev>>
    /\ UNCHANGED <<file, arg, ret>>

\* sqlite3.connect or a statement raises (sqlite3.OperationalError: the
\* database is locked); nothing in the row loop catches it, the connection
\* is dropped without commit
RaiseSqlite ==
    /\ \/ pc = "loop" /\ use_sqlite /\ idx < MaxRows /\ UNCHANGED txn
       \/ pc = "row" /\ txn' = [txn EXCEPT !.open = FALSE, !.dropped = TRUE]
    /\ pc' = "raised"
    /\ UNCHANGED <<use_sqlite, dry_run, idx, report, remoteTags, tagsTable, itemTags, puts, ev>>
    /\ UNCHANGED <<file, arg, ret>>

\* the process is stopped while the transaction of a row is open
Interrupt ==
    /\ pc = "row"
    /\ pc' = "killed"
    /\ txn' = [txn EXCEPT !.open = FALSE, !.dropped = TRUE]
    /\ UNCHANGED <<use_sqlite, dry_run, idx, report, remoteTags, tagsTable, itemTags, puts, ev>>
    /\ UNCHANGED <<file, arg, ret>>

FailReturn == Return /\ UNCHANGED <<file, unit>>

NextFail ==
    \/ FailCall
    \/ FailRowRemote
    \/ RaiseRemote
    \/ \E raw \in Rows : SqliteBegin(raw)
    \/ SqliteDelete
    \/ SqliteInsert
    \/ SqliteCommit
    \/ RaiseSqlite
    \/ Interrupt
    \/ FailReturn

SpecFail == InitFail /\ [][NextFail]_vars

\* C19: a store call that raises while a row is processed does not end the
\* call: the row loop is never left by an exception, so the later rows are
\* processed and the report is returned
C19_NeverAborts == pc # "raised"

\* a transaction of the SQLite branch has been opened
TxnSeen == "pre" \in DOMAIN txn

\* the tag names linked to record i in the committed database
Committed(i) == LinkedTags(tagsTable, itemTags, i)

\* the committed tags of record i are those it had when the row began, or the
\* row's tags have replaced its review:* tags
AllOrNothing(i) ==
    \/ Committed(i) = txn.pre[i]
    \/ /\ i \in txn.covered
       /\ { t \in Committed(i) : LikeReview(t) } = SeqToSet(txn.tags_to_set)
       /\ { t \in Committed(i) : ~LikeReview(t) } = { t \in txn.pre[i] : ~LikeReview(t) }

\* C20 as stated: in no committed state are the review:* links of a record
\* deleted and its new tags not inserted, and a transaction covers the
\* delete-then-insert of one record
C20_TxnPerRecord ==
    TxnSeen =>
        /\ \A i \in ItemIDs : AllOrNothing(i)
        /\ Cardinality(txn.written) <= 1

\* C20 amended: in no committed state are the review:* links of a record
\* deleted and its new tags not inserted; one transaction covers the
\* delete-then-insert of every record the row matched: while it is open, and
\* when the run stops before its commit, the committed database is as the row
\* found it, and its commit writes all the records of the row at once
C20_TxnPerRow ==
    TxnSeen =>
        /\ \A i \in ItemIDs : AllOrNothing(i)
        /\ (txn.open \/ txn.dropped) =>
              \A i \in ItemIDs : Committed(i) = txn.pre[i]
        /\ (~txn.open /\ ~txn.dropped) =>
              txn.covered = SeqToSet(txn.items)

\* C20 witness: the process was stopped after the tags of one record were
\* replaced and the review:* links of a second one deleted, in one open
\* transaction
C20_Witness ==
    /\ pc = "killed"
    /\ TxnSeen
    /\ Cardinality(txn.written) = 1
    /\ txn.step = "insert"
    /\ LinkedTags(txn.tags, txn.links, txn.todo[1]) # txn.pre[txn.todo[1]]
    /\ \E i \in txn.written : LinkedTags(txn.tags, txn.links, i) # txn.pre[i]

(***************************************************************************)
(* The export side (espace/zotsync/zot_export.py): make_asreview_csv turns *)
(* the rows of a Zotero CSV export into the rows of an ASReview CSV        *)
(***************************************************************************)
\* rows in the Zotero CSV that is exported
MaxExport == 2

\* the rows of Zotero CSVs tried, as pd.read_csv hands them over: an empty
\* cell is NaN
ExportRows ==
    { [Title |-> <<"D","e","e","p"," ","L","e","a","r","n">>, Year |-> <<"2","0","2","0">>,
       Date |-> <<"2","0","2","0","-","0","5","-","0","1">>,
       DOI |-> <<"1","0",".","1","/","a">>],
      [Title |-> <<"d","e","e","p"," "," ","l","e","a","r","n">>, Year |-> <<"2","0","2","1">>,
       Date |-> NaN, DOI |-> <<"1","0",".","1","/","A"," ">>],
      [Title |-> <<"D","e","e","p"," ","L","e","a","r","n">>, Year |-> <<"2","0","2","0">>,
       Date |-> NaN, DOI |-> NaN],
      [Title |-> Txt_deep_learn, Year |-> <<"2","0","2","0">>,
       Date |-> <<"2","0","2","0","-","0","5","-","0","1">>, DOI |-> NaN],
      [Title |-> Txt_deep_learn, Year |-> <<"2","0","2","1">>,
       Date |-> <<"2","0","2","0","-","0","5","-","0","1">>, DOI |-> NaN],
      [Title |-> <<"g","r","a","p","h"," ","n","e","t","s">>, Year |-> <<"2","0","2","1">>,
       Date |-> NaN, DOI |-> NaN],
      [Title |-> <<"g","r","a","p","h"," ","n","e","t","s">>, Year |-> <<"2","0","2","1">>,
       Date |-> NaN, DOI |-> <<"1","0",".","9","/","z">>] }

\* _first_nonempty of two values
FirstNonempty(v, w) == IF Norm(v) # <<>> THEN Norm(v) ELSE Norm(w)

\* hashlib.sha1(base).hexdigest()[:16]: the digest stands for the text it is
\* taken of, two different texts of the model have different digests
Sha1Hex16(base) == base

\* _guess_year of zot_export.py: dateutil finds the year of the date texts of
\* the model where the regex finds it, and "nan" holds no date
GuessYearOfDate(s) == GuessYear(s)

\* _build_fingerprint
BuildFingerprint(title, year, doi) ==
    IF Lower(Norm(doi)) # <<>>
    THEN <<"d","o","i",":">> \o Lower(Norm(doi))
    ELSE <<"t","s","h",":">> \o Sha1Hex16(Lower(Norm(title)) \o <<"|">> \o Norm(year))

\* ndf: the columns of colmap, a column the CSV does not have is "" in every row
Ndf(rows, has_year, has_doi) ==
    [n \in 1..Len(rows) |->
        [title |-> rows[n].Title,
         year |-> IF has_year THEN rows[n].Year ELSE <<>>,
         date |-> rows[n].Date,
         doi |-> IF has_doi THEN rows[n].DOI ELSE <<>>]]

\* out before the duplicates are removed: one row per row of ndf, labelled
\* with the index pandas keeps for it
OutRows(ndf) ==
    [n \in 1..Len(ndf) |->
        [index |-> n,
         title |-> Norm(ndf[n].title),
         doi |-> Lower(Norm(ndf[n].doi)),
         year |-> FirstNonempty(Norm(ndf[n].year), GuessYearOfDate(ndf[n].date))]]

\* fps: the fingerprint of every row of out
Fingerprints(outRows) ==
    [n \in 1..Len(outRows) |->
        BuildFingerprint(outRows[n].title, outRows[n].year, outRows[n].doi)]

\* the duplicates are removed whatever the deduplicate argument says
DeduplicateAlways(outRows, deduplicate) ==
    LET fps == Fingerprints(outRows)
    IN  SelectSeq(outRows, LAMBDA r : ~\E m \in 1..(r.index - 1) : fps[m] = fps[r.index])

\* if deduplicate: out = out.loc[~fps.duplicated()]
Deduplicate(outRows, deduplicate) ==
    IF deduplicate
    THEN LET fps == Fingerprints(outRows)
         IN  SelectSeq(outRows,
                       LAMBDA r : ~\E m \in 1..(r.index - 1) : fps[m] = fps[r.index])
    ELSE outRows

\* make_asreview_csv without PDF links: the rows written to out_csv
MakeAsreviewCsv(rows, has_year, has_doi, deduplicate) ==
    Deduplicate(OutRows(Ndf(rows, has_year, has_doi)), deduplicate)

RECURSIVE SeqsUpTo(_, _)
\* the sequences of at most n elements of S
SeqsUpTo(S, n) ==
    IF n = 0 THEN { <<>> }
    ELSE LET shorter == SeqsUpTo(S, n - 1)
         IN  shorter \cup { Append(q1, x) : q1 \in shorter, x \in S }

ExportArgs ==
    [kind : {"export"}, rows : SeqsUpTo(ExportRows, MaxExport),
     has_year : BOOLEAN, has_doi : BOOLEAN, deduplicate : BOOLEAN]

InitExport == InitBare /\ arg \in ExportArgs

\* make_asreview_csv on one Zotero CSV
Export ==
    /\ arg.kind = "export"
    /\ ret = NoRet
    /\ ret' = [kind |-> "export",
               out |-> MakeAsreviewCsv(arg.rows, arg.has_year, arg.has_doi,
                                       arg.deduplicate)]
    /\ UNCHANGED <<core, file, arg, txn>>

NextExport == Export

SpecExport == InitExport /\ [][NextExport]_vars

\* the CSV has been written
Exported == ret.kind = "export"

\* the input row an output row was made of
ExportedFrom == [n \in 1..Len(ret.out) |-> ret.out[n].index]

\* C21: with deduplicate=False the output has exactly one row per input row,
\* in input order: the n-th output row is made of the n-th input row
C21_OneRowPerRow ==
    (Exported /\ ~arg.deduplicate) =>
        /\ Len(ret.out) = Len(arg.rows)
        /\ \A n \in 1..Len(ret.out) :
              /\ ExportedFrom[n] = n
              /\ ret.out[n].title = Norm(arg.rows[n].Title)

\* C21 witness: a file of two rows that have the same fingerprint is exported
\* without deduplication, and both rows are written
C21_Witness ==
    /\ Exported /\ ~arg.deduplicate
    /\ Len(arg.rows) = 2 /\ Len(ret.out) = 2
    /\ BuildFingerprint(ret.out[1].title, ret.out[1].year, ret.out[1].doi)
         = BuildFingerprint(ret.out[2].title, ret.out[2].year, ret.out[2].doi)

\* input row n has a DOI
HasDoi(n) == arg.has_doi /\ arg.rows[n].DOI # NaN /\ Norm(arg.rows[n].DOI) # <<>>

\* the deduplication key of input row n: the normalized DOI when the row has
\* one, otherwise the normalized lower-cased title and the year
DedupKey(n) ==
    LET row == OutRows(Ndf(arg.rows, arg.has_year, arg.has_doi))[n]
    IN  IF HasDoi(n) THEN <<"doi", Lower(Norm(arg.rows[n].DOI))>>
        ELSE <<"title+year", Lower(row.title), row.year>>

\* C22: with deduplicate=True a row is dropped iff an earlier row has the same
\* deduplication key, so two rows without a DOI that differ in title or year
\* are both kept
C22_DedupKey ==
    (Exported /\ arg.deduplicate) =>
        \A n \in 1..Len(arg.rows) :
            (\A k \in 1..Len(ret.out) : ExportedFrom[k] # n)
                <=> (\E m \in 1..(n - 1) : DedupKey(m) = DedupKey(n))

(***************************************************************************)
(* The matcher on its own, continued: scores and years of the candidates   *)
(***************************************************************************)
\* C23: every candidate the fuzzy search returns has a score within [0,1],
\* the year bonus included
C23_ScoreInUnitInterval ==
    Matched =>
        \A i \in SeqToSet(ret.fuzzy) :
            LET sc == ScanScore(FALSE, i)
            IN  0 <= sc[1] /\ sc[1] <= 100 * sc[2]

\* record i has a year, the lookup has a year, and the two differ
DifferentYear(i) ==
    /\ ZYear(i) # <<>>
    /\ MatchYear(arg) # <<>>
    /\ Lower(ZYear(i)) # Lower(MatchYear(arg))

\* C27 as stated: on the remote backend a record of a different year is never
\* a candidate, neither through the exact search nor through the fuzzy
\* fallback (read for the lookups whose GETs are all answered with 200 and
\* whose year cell holds a year)
C27_NeverDifferentYear ==
    (Matched /\ ~arg.sqlite /\ arg.tyOk /\ arg.fzOk /\ ~YearAbsent) =>
        \A i \in SeqToSet(ret.items) : ~DifferentYear(i)

\* C27: on the remote backend the exact title+year search never returns a
\* record of a different year; a record of a different year is a candidate
\* only when the exact search returned nothing and the fuzzy fallback scores
\* the record at or above the threshold
C27_ExactSameYear ==
    (Matched /\ ~arg.sqlite) =>
        /\ \A i \in SeqToSet(ret.exact) : ~DifferentYear(i)
        /\ \A i \in SeqToSet(ret.items) :
              DifferentYear(i) =>
                  /\ ret.exact = <<>>
                  /\ arg.fzOk
                  /\ ScanScore(FALSE, i)[1] >= fuzzy_threshold * ScanScore(FALSE, i)[2]

\* C27 witness: every GET is answered with 200, the year cell holds a year,
\* the exact search finds nothing and the fuzzy fallback makes a record of a
\* different year a candidate
C27_Witness ==
    /\ Matched /\ ~arg.sqlite /\ arg.tyOk /\ arg.fzOk /\ ~YearAbsent
    /\ ret.exact = <<>>
    /\ \E i \in SeqToSet(ret.items) : DifferentYear(i)

(***************************************************************************)
(* _normalize_doi on its own: spellings of a DOI with up to two prefixes   *)
(***************************************************************************)
\* what stands in front of the DOI in a spelling: nothing, a blank, one of
\* the known prefixes, or a known prefix in capitals
DoiFronts ==
    { DoiPrefixes[k] : k \in 1..Len(DoiPrefixes) } \cup
    { <<>>, <<" ">>, <<"D","O","I",":">> }

\* the DOIs spelled
DoiCores == { <<"1","0",".","1","/","a">>, <<"1","0",".","1","/","A"," ">>, <<>> }

\* the DOI cells normalized: every spelling with two fronts, and the empty cell
DoiCells == { a \o b \o c : a \in DoiFronts, b \in DoiFronts, c \in DoiCores } \cup { NaN }

DoiArgs == [kind : {"doi"}, s : DoiCells]

InitDoi == InitBare /\ arg \in DoiArgs

\* _normalize_doi applied to a cell, and applied again to its own result
NormalizeDoiCall ==
    /\ arg.kind = "doi"
    /\ ret = NoRet
    /\ ret' = [kind |-> "doi",
               once |-> NormalizeDoi(arg.s),
               twice |-> NormalizeDoi(NormalizeDoi(arg.s))]
    /\ UNCHANGED <<core, file, arg, txn>>

NextDoi == NormalizeDoiCall

SpecDoi == InitDoi /\ [][NextDoi]_vars

\* C30: _normalize_doi is idempotent and its result never starts with one of
\* the known prefixes
C30_NormalizeDoiIdempotent ==
    ret.kind = "doi" =>
        /\ ret.twice = ret.once
        /\ \A k \in 1..Len(DoiPrefixes) : ~StartsWith(ret.once, DoiPrefixes[k])

(***************************************************************************)
(* The label make_asreview_csv_from_db exports for a record, from the tags *)
(* linked to it in zotero.sqlite                                           *)
(***************************************************************************)
\* t.name LIKE 'review:Decision=%'
LikeDecision(name) == StartsWith(Lower(name), Lower(REVIEW_DECISION_PREFIX))

\* SUBSTR(t.name, LENGTH('review:Decision=') + 1) of the tags of a record that
\* the sub-select labelTags keeps
LabelValues(tags) ==
    { SubSeq(t, Len(REVIEW_DECISION_PREFIX) + 1, Len(t)) : t \in { u \in tags : LikeDecision(u) } }

RECURSIVE Orders(_)
\* the orders in which GROUP_CONCAT may visit the rows of a group
Orders(S) ==
    IF S = {} THEN { <<>> }
    ELSE UNION { { <<x>> \o p : p \in Orders(S \ {x}) } : x \in S }

RECURSIVE GroupConcat(_)
\* GROUP_CONCAT(..., '; ') over the values in one order
GroupConcat(vals) ==
    IF vals = <<>> THEN <<>>
    ELSE IF Len(vals) = 1 THEN vals[1]
    ELSE vals[1] \o <<";", " ">> \o GroupConcat(Tail(vals))

\* the asreview_label written for a label_value: fillna(""), _norm, "nan"
\* replaced by "", then "1" for included, "0" for excluded, "" for anything else
AsreviewLabel(label_value) ==
    LET n == Norm(label_value)
        v == IF n = <<"n","a","n">> THEN <<>> ELSE n
    IN  IF v = INCLUDED THEN <<"1">>
        ELSE IF v = EXCLUDED THEN <<"0">>
        ELSE <<>>

\* the asreview_label cells the export may write for a record with these tags
ExportLabels(tags) == { AsreviewLabel(GroupConcat(p)) : p \in Orders(LabelValues(tags)) }

(***************************************************************************)
(* Properties of one call, continued                                       *)
(***************************************************************************)
\* the tags of record i in the remote library before the latest iteration
PreRemoteTags(i) == IF ev.kind = "remote" THEN ev.preTags[i] ELSE remoteTags[Item(i).key]

\* what the backend that is not active makes of the row of the latest
\* iteration, from the same records and tags: the report and the tag sets
OtherBackend ==
    LET tags_to_set == TagsToSetOf[ev.raw]
        sq == RowSqliteResult(ev.preTable, ev.preLinks, ev.preReport,
                              SqliteItemsOf[ev.raw], tags_to_set)
        rmItems == RemoteItemsOf[ev.raw, TRUE, TRUE]
        rmSent == Sent(rmItems, tags_to_set, FALSE)
    IN  IF use_sqlite
        THEN [report |-> RowRemoteReport(ev.preReport, rmItems, tags_to_set, FALSE,
                                         SeqToSet(rmItems)),
              tags |-> [i \in LibraryItems |->
                           IF i \in rmSent THEN EnsureTags(PreRemoteTags(i), tags_to_set)
                           ELSE PreRemoteTags(i)]]
        ELSE [report |-> [ev.preReport EXCEPT !.updated = sq.updated, !.errors = sq.errors],
              tags |-> [i \in LibraryItems |-> LinkedTags(sq.tags, sq.links, i)]]

\* C24: the two backends are interchangeable: for the first row of a non-dry
\* call, with every request answered with success, the report and the tag set
\* of every record are those the other backend makes of the same row and the
\* same records
C24_Interchangeable ==
    (Acted /\ idx = 1 /\ ~dry_run /\ ~ev.searchFailed /\ ev.rejected = {}) =>
        /\ report = OtherBackend.report
        /\ \A i \in LibraryItems : Tags(i) = OtherBackend.tags[i]

\* tagIDs and names are unique in a tags table
UniqueTags(tags) ==
    \A t \in tags, u \in tags : (t.tagID = u.tagID \/ t.name = u.name) => t = u

\* C25: the tags table keeps unique tagIDs and unique names; an iteration on
\* the SQLite backend keeps every row of the table, and a row it inserts has
\* a name of the row's tags that no row had and a tagID that no row had
C25_TagsTableUnique ==
    /\ UniqueTags(tagsTable)
    /\ ev.kind = "sqlite" =>
          /\ ev.preTable \subseteq tagsTable
          /\ \A t \in tagsTable \ ev.preTable :
                /\ t.name \in SeqToSet(ev.tags_to_set)
                /\ \A u \in ev.preTable : u.name # t.name /\ u.tagID # t.tagID

\* C25 witness: an iteration on the SQLite backend inserted rows for new tag
\* values, and a later one reused a row and inserted another
C25_Witness ==
    /\ ev.kind = "sqlite" /\ ev.accepted # {}
    /\ ev.preTable # InitTagsTable
    /\ tagsTable # ev.preTable
    /\ \E n \in 1..Len(ev.tags_to_set) : \E u \in ev.preTable : u.name = ev.tags_to_set[n]

\* the review:Decision=, review:Time= and review:Reason= tags among tags
DecisionTags(tags) ==
    { t \in tags : \/ StartsWith(t, REVIEW_DECISION_PREFIX)
                   \/ StartsWith(t, REVIEW_TIME_PREFIX)
                   \/ StartsWith(t, REVIEW_REASON_PREFIX) }

\* record i carried no tag when the call began: no later step removes the topic tag
StartedBare(i) == TagTopic \notin Tags(i)

\* C26: when two successive rows with different decisions are committed to
\* the same record, which carried no tag before, the record's
\* review:Decision/Time/Reason tags are exactly those of the later row, on
\* both backends
C26_LastRowWins ==
    \A i \in ev.accepted \cap ev.prevAccepted :
        (LabelToDecision(ev.prevRaw.asreview_label) # EvDecision /\ StartedBare(i)) =>
            DecisionTags(Tags(i)) = SeqToSet(ev.tags_to_set)

\* C29: for a record that carried no tag before decisions were applied to it,
\* the asreview_label the export writes is '1' or '0' and label_to_decision
\* maps it to the decision applied last
C29_RoundTrip ==
    \A i \in ev.accepted :
        StartedBare(i) =>
            \A l \in ExportLabels(Tags(i)) :
                l \in { <<"1">>, <<"0">> } /\ LabelToDecision(l) = EvDecision

(***************************************************************************)
(* The item lookup of the SQLite branch on its own: zotero.sqlite holds    *)
(* every library of the user, and a key is unique within its library only  *)
(***************************************************************************)
\* the rows table items may hold: three items, each in one of two libraries
\* under one of three keys, no two items of a library under the same key
ItemsTables ==
    { { [itemID |-> i, libraryID |-> f[i][1], key |-> f[i][2]] : i \in {1, 2, 3} } :
        f \in { g \in [{1, 2, 3} -> {1, 2} \X {"K1", "K2", "K3"}] :
                  \A i \in {1, 2, 3}, j \in {1, 2, 3} : g[i] = g[j] => i = j } }

\* SELECT itemID, key FROM items WHERE libraryID = ?: the items of the group's
\* library, from which the title scan takes the candidates
GroupItems(items) ==
    { r \in items : \E g \in Groups : g.groupID = library_id /\ g.libraryID = r.libraryID }

\* SELECT itemID FROM items WHERE key = ?: the rows the statement finds
RowsWithKey(items, key) == { r \in items : r.key = key }

\* a table items and the candidates of a row: some items of the group's library
InitLookup ==
    /\ InitBare
    /\ \E t \in ItemsTables : \E c \in SUBSET GroupItems(t) :
          arg = [kind |-> "lookup", items |-> t, candidates |-> c]

\* "for match in items" up to item_id = row[0]: for the key of every
\* candidate, fetchone() hands over one of the rows that have the key; the
\* DELETEs and INSERTs that follow name that itemID
LookupItemIds ==
    /\ arg.kind = "lookup"
    /\ ret = NoRet
    /\ \E row \in [{ c.key : c \in arg.candidates } -> { r.itemID : r \in arg.items }] :
          /\ \A k \in DOMAIN row : row[k] \in { r.itemID : r \in RowsWithKey(arg.items, k) }
          /\ ret' = [kind |-> "lookup", written |-> { row[k] : k \in DOMAIN row }]
    /\ UNCHANGED <<core, file, arg, txn>>

NextLookup == LookupItemIds

SpecLookup == InitLookup /\ [][NextLookup]_vars

\* C28: a record that is in no candidate list is never written: the items
\* whose itemTags rows the SQLite branch deletes and inserts are candidates
C28_OnlyCandidatesWritten ==
    ret.kind = "lookup" => ret.written \subseteq { c.itemID : c \in arg.candidates }

====
